---------------------------- MODULE Spec2Model ----------------------------
(***************************************************************************)
(* Connection management of the sync server:                               *)
(*   - ConnectionBroker: one per client websocket, dispatches the tagged   *)
(*     messages of the client to a single SyncConnection (the session);    *)
(*   - PrimarySocket: the link of a replica to the primary, multiplexing   *)
(*     request/response pairs by request id, with a ping/pong heartbeat.   *)
(* The two components share no state; BrokerSpec and LinkSpec are their    *)
(* state machines.                                                         *)
(***************************************************************************)
EXTENDS Integers, Sequences, FiniteSets, TLC

\* ------------------------------------------------------------------ bounds
\* Number of inbound websocket messages of one connection.
MaxMsgs == 3
\* Number of sendCreateDb / sendApplyChanges calls made on one link.
MaxCalls == 2

\* ------------------------------------------------------- ConnectionBroker
VARIABLES
  ws,              \* the websocket: "open", "errored" (error emitted), "closed"
  syncConnection,  \* #syncConnection: Null or the id of the stored session
  msgs,            \* one record per inbound message: its handler's position
  factoryCalls,    \* how many times createSyncConnection was invoked
  nSessions,       \* how many sessions createSyncConnection has produced
  sessionLog,      \* every call made on a session, in order
  closeLog         \* every run of ConnectionBroker.close(), with its cause

brokerVars ==
  <<ws, syncConnection, msgs, factoryCalls, nSessions, sessionLog, closeLog>>

\* #syncConnection = null
Null == 0

\* The tags the codec can produce; "Ping" stands for every tag the switch of
\* #handleMessage has no case for.
Tags == {"AnnouncePresence", "Changes", "RejectChanges", "StartStreaming", "Ping"}

\* What arrives on the websocket: the encoding of a tagged message, or bytes
\* that are no encoding of any message.
Bytes == Tags \cup {"garbage"}

\* decode(bytes): the message, or an exception for malformed bytes.
decode(b) ==
  IF b \in Tags THEN [threw |-> FALSE, _tag |-> b]
                ELSE [threw |-> TRUE, _tag |-> "none"]

\* Positions of the async message callback:
\*   awaitFactory  suspended at `await createSyncConnection(...)`
\*   awaitReceive  suspended at `await syncConn.receiveChanges(msg)`
\*   rejected      #handleMessage threw; the catch block has not run yet
\*   caught        the catch block ran (console.error, this.close())
\*   done          #handleMessage returned normally
\*   escaped       the callback itself rejected: nothing awaits it
InFlight == {"awaitFactory", "awaitReceive", "rejected"}

\* A handler record. `sess` is the value of #syncConnection the handler read
\* when it was dispatched, `overlap` whether another handler was still in
\* flight at that moment, `collabFailed` whether the session factory or the
\* session itself raised in it.
Handler(tag, pc, sess, overlap) ==
  [tag |-> tag, pc |-> pc, sess |-> sess, overlap |-> overlap,
   collabFailed |-> FALSE]

SomeInFlight == \E i \in 1..Len(msgs) : msgs[i].pc \in InFlight

\* A call on a session, made while handling message `by` (0: a transport
\* event).
Call(sess, op, by) == [sess |-> sess, op |-> op, by |-> by]

\* ConnectionBroker.close(): this.#syncConnection?.close()
close(by) ==
  /\ closeLog' = Append(closeLog, by)
  /\ sessionLog' = IF syncConnection # Null
                     THEN Append(sessionLog, Call(syncConnection, "close", by))
                     ELSE sessionLog

\* case tags.AnnouncePresence, up to the await.
AnnouncePresenceEntry(i) ==
  IF syncConnection # Null
    THEN /\ msgs' = Append(msgs, Handler("AnnouncePresence", "rejected",
                                         syncConnection, SomeInFlight))
         /\ UNCHANGED <<factoryCalls, sessionLog>>
    ELSE /\ msgs' = Append(msgs, Handler("AnnouncePresence", "awaitFactory",
                                         syncConnection, SomeInFlight))
         /\ factoryCalls' = factoryCalls + 1
         /\ UNCHANGED sessionLog

\* Variant of ChangesEntry with an optional call (`syncConn?.receiveChanges`):
\* a null session is skipped silently.
ChangesEntryOptionalCall(i) ==
  IF syncConnection = Null
    THEN /\ msgs' = Append(msgs, Handler("Changes", "done",
                                         syncConnection, SomeInFlight))
         /\ UNCHANGED <<factoryCalls, sessionLog>>
    ELSE /\ msgs' = Append(msgs, Handler("Changes", "awaitReceive",
                                         syncConnection, SomeInFlight))
         /\ sessionLog' =
              Append(sessionLog, Call(syncConnection, "receiveChanges", i))
         /\ UNCHANGED factoryCalls

\* case tags.Changes, up to the await: the call on a null #syncConnection is
\* a TypeError.
ChangesEntry(i) ==
  IF syncConnection = Null
    THEN /\ msgs' = Append(msgs, Handler("Changes", "rejected",
                                         syncConnection, SomeInFlight))
         /\ UNCHANGED <<factoryCalls, sessionLog>>
    ELSE /\ msgs' = Append(msgs, Handler("Changes", "awaitReceive",
                                         syncConnection, SomeInFlight))
         /\ sessionLog' =
              Append(sessionLog, Call(syncConnection, "receiveChanges", i))
         /\ UNCHANGED factoryCalls

\* case tags.RejectChanges: synchronous.
RejectChangesEntry(i) ==
  IF syncConnection = Null
    THEN /\ msgs' = Append(msgs, Handler("RejectChanges", "rejected",
                                         syncConnection, SomeInFlight))
         /\ UNCHANGED <<factoryCalls, sessionLog>>
    ELSE /\ msgs' = Append(msgs, Handler("RejectChanges", "done",
                                         syncConnection, SomeInFlight))
         /\ sessionLog' =
              Append(sessionLog, Call(syncConnection, "changesRejected", i))
         /\ UNCHANGED factoryCalls

\* case tags.StartStreaming: always throws.
StartStreamingEntry(i) ==
  /\ msgs' = Append(msgs, Handler("StartStreaming", "rejected",
                                  syncConnection, SomeInFlight))
  /\ UNCHANGED <<factoryCalls, sessionLog>>

\* #handleMessage(msg), from its call to its first suspension.
handleMessage(i, tag) ==
  CASE tag = "AnnouncePresence" -> AnnouncePresenceEntry(i)
    [] tag = "Changes"          -> ChangesEntry(i)
    [] tag = "RejectChanges"    -> RejectChangesEntry(i)
    [] tag = "StartStreaming"   -> StartStreamingEntry(i)
    [] OTHER -> /\ msgs' = Append(msgs, Handler(tag, "done",
                                                syncConnection, SomeInFlight))
                /\ UNCHANGED <<factoryCalls, sessionLog>>

\* The "message" callback, from the event to the first suspension.  decode
\* runs before the try block: when it throws, the callback's promise rejects
\* and the emitter drops it.
OnMessage(b) ==
  /\ ws = "open"
  /\ Len(msgs) < MaxMsgs
  /\ LET m == decode(b)
         i == Len(msgs) + 1
     IN IF m.threw
          THEN /\ msgs' = Append(msgs, Handler("garbage", "escaped",
                                               syncConnection, SomeInFlight))
               /\ UNCHANGED <<factoryCalls, sessionLog>>
          ELSE handleMessage(i, m._tag)
  /\ UNCHANGED <<ws, syncConnection, nSessions, closeLog>>

\* Variant of FactoryDone that stores the session and does not start it.
FactoryDoneNoStart(i, ok) ==
  /\ i \in 1..Len(msgs)
  /\ msgs[i].pc = "awaitFactory"
  /\ IF ok
       THEN /\ nSessions' = nSessions + 1
            /\ syncConnection' = nSessions + 1
            /\ msgs' = [msgs EXCEPT ![i].pc = "done"]
            /\ UNCHANGED sessionLog
       ELSE /\ msgs' = [msgs EXCEPT ![i].pc = "rejected",
                                    ![i].collabFailed = TRUE]
            /\ UNCHANGED <<nSessions, syncConnection, sessionLog>>
  /\ UNCHANGED <<ws, factoryCalls, closeLog>>

\* createSyncConnection settled: the handler resumes after the await, stores
\* the session and starts it, or rethrows the factory's failure.
FactoryDone(i, ok) ==
  /\ i \in 1..Len(msgs)
  /\ msgs[i].pc = "awaitFactory"
  /\ IF ok
       THEN /\ nSessions' = nSessions + 1
            /\ syncConnection' = nSessions + 1
            /\ sessionLog' = Append(sessionLog, Call(nSessions + 1, "start", i))
            /\ msgs' = [msgs EXCEPT ![i].pc = "done"]
       ELSE /\ msgs' = [msgs EXCEPT ![i].pc = "rejected",
                                    ![i].collabFailed = TRUE]
            /\ UNCHANGED <<nSessions, syncConnection, sessionLog>>
  /\ UNCHANGED <<ws, factoryCalls, closeLog>>

\* receiveChanges settled: the handler returns, or rethrows.
ReceiveDone(i, ok) ==
  /\ i \in 1..Len(msgs)
  /\ msgs[i].pc = "awaitReceive"
  /\ msgs' = [msgs EXCEPT ![i].pc = IF ok THEN "done" ELSE "rejected",
                          ![i].collabFailed = ~ok]
  /\ UNCHANGED <<ws, syncConnection, factoryCalls, nSessions, sessionLog,
                 closeLog>>

\* Variant of CatchHandler that logs the error and leaves the session open.
CatchHandlerNoClose(i) ==
  /\ i \in 1..Len(msgs)
  /\ msgs[i].pc = "rejected"
  /\ msgs' = [msgs EXCEPT ![i].pc = "caught"]
  /\ UNCHANGED <<ws, syncConnection, factoryCalls, nSessions, sessionLog,
                 closeLog>>

\* The catch block of the "message" callback.
CatchHandler(i) ==
  /\ i \in 1..Len(msgs)
  /\ msgs[i].pc = "rejected"
  /\ msgs' = [msgs EXCEPT ![i].pc = "caught"]
  /\ close(i)
  /\ UNCHANGED <<ws, syncConnection, factoryCalls, nSessions>>

\* ws.on("error"): the websocket emits "error" and then "close".
OnWsError ==
  /\ ws = "open"
  /\ ws' = "errored"
  /\ close(0)
  /\ UNCHANGED <<syncConnection, msgs, factoryCalls, nSessions>>

\* ws.on("close")
OnWsClose ==
  /\ ws \in {"open", "errored"}
  /\ ws' = "closed"
  /\ close(0)
  /\ UNCHANGED <<syncConnection, msgs, factoryCalls, nSessions>>

BrokerInit ==
  /\ ws = "open"
  /\ syncConnection = Null
  /\ msgs = <<>>
  /\ factoryCalls = 0
  /\ nSessions = 0
  /\ sessionLog = <<>>
  /\ closeLog = <<>>


\* ---------------------------------------------------------- PrimarySocket
VARIABLES
  closed,                \* #closed
  socket,                \* #socket: "live", "errPending" (failed, "error" not
                         \* yet emitted), "closePending" (destroyed or failed,
                         \* "close" not yet emitted), "closed"
  timer,                 \* #pingPongHandle is still scheduled
  elapsed,               \* Date.now() - #lastPong as the latest tick of the
                         \* timer saw it, in ms; 0 once the timer is
                         \* cancelled, when nothing reads #lastPong any more
  createDbRequests,      \* #createDbRequests: request id -> resolver
  applyChangesRequests,  \* #applyChangesRequests: request id -> resolver
  calls,                 \* the send calls made so far, each with its promise
  prematurelyClosed,     \* how many times #onPrematurelyClosed was invoked
  uncaught,              \* an exception left the "data" callback
  pingWritten,           \* the latest run of #sendPing wrote a Ping
  peerDead               \* the primary has stopped sending

linkVars ==
  <<closed, socket, timer, elapsed, createDbRequests, applyChangesRequests,
    calls, prematurelyClosed, uncaught, pingWritten, peerDead>>

vars == <<brokerVars, linkVars>>

\* setInterval(this.#sendPing, 1000)
PingIntervalMs == 1000
\* Date.now() - this.#lastPong > 5000
PongTimeoutMs == 5000

\* Request ids the callers use (the caller assigns them).
Ids == {1, 2}

\* _reqid of the synthetic Err of #rejectPending.
NoReqId == -1

Msg(tag, reqid, err) == [_tag |-> tag, _reqid |-> reqid, err |-> err]

\* The Err #rejectPending hands to every pending resolver.
ConnectionClosedErr == Msg("Err", NoReqId, "Primary connection closed")

\* What the primary can send: a Pong, a response or an Err for any id, a
\* message of a tag the link has no case for, or bytes decode throws on.
Inbound ==
  {Msg("Pong", 0, ""), Msg("Ping", 0, ""), Msg("garbage", 0, "")}
  \cup {Msg(t, r, "") : t \in {"CreateDbOnPrimaryResponse",
                               "ApplyChangesOnPrimaryResponse"}, r \in Ids}
  \cup {Msg("Err", r, "peer error") : r \in Ids}

\* Map operations on a pending table.
EmptyMap == <<>>
MapSet(t, k, v) == [x \in DOMAIN t \cup {k} |-> IF x = k THEN v ELSE t[x]]
MapDelete(t, k) == [x \in DOMAIN t \ {k} |-> t[x]]
MapValues(t) == {t[x] : x \in DOMAIN t}

\* A send call: its family, the id of its message, whether the callback of
\* its socket write has reported an error, and every reject/resolve made on
\* its promise, in order.  The promise is settled by the first of them.
\* Two facts about the moment of the call are kept with it: whether its id
\* was the id of a request still outstanding, and whether the socket it wrote
\* to was already dead.
NewCall(family, reqid) ==
  [family |-> family, reqid |-> reqid, writeFailed |-> FALSE,
   settles |-> <<>>,
   idOutstanding |-> \E c \in DOMAIN calls :
                       calls[c].reqid = reqid /\ calls[c].settles = <<>>,
   onDeadSocket |-> socket # "live"]

Resolve(msg) == [how |-> "resolve", with |-> msg]
Reject(msg) == [how |-> "reject", with |-> msg]

\* resolve(msg) / reject(msg) in the executor of call c's promise.
SettleIn(cs, S, outcome) ==
  [c \in DOMAIN cs |->
     IF c \in S THEN [cs[c] EXCEPT !.settles = Append(@, outcome)] ELSE cs[c]]

\* Variant of ResolverTable for a resolver that forgets to delete its entry.
ResolverTableKeepsEntry(t, msg) == t

\* The resolver a send call registers: it deletes the entry under the id of
\* the message it is given, then rejects on Err and resolves otherwise.
ResolverTable(t, msg) == MapDelete(t, msg._reqid)
ResolverOutcome(msg) == IF msg._tag = "Err" THEN Reject(msg) ELSE Resolve(msg)

\* sendCreateDb(msg): register the resolver, write the message.
sendCreateDb(r) ==
  /\ Len(calls) < MaxCalls
  /\ createDbRequests' = MapSet(createDbRequests, r, Len(calls) + 1)
  /\ calls' = Append(calls, NewCall("createDb", r))
  /\ UNCHANGED <<closed, socket, timer, elapsed, applyChangesRequests,
                 prematurelyClosed, uncaught, pingWritten, peerDead>>

\* sendApplyChanges(msg)
sendApplyChanges(r) ==
  /\ Len(calls) < MaxCalls
  /\ applyChangesRequests' = MapSet(applyChangesRequests, r, Len(calls) + 1)
  /\ calls' = Append(calls, NewCall("applyChanges", r))
  /\ UNCHANGED <<closed, socket, timer, elapsed, createDbRequests,
                 prematurelyClosed, uncaught, pingWritten, peerDead>>

\* The primary has answered call c: a message carrying a request id has
\* settled it.
Answered(c) ==
  \E k \in DOMAIN calls[c].settles : calls[c].settles[k].with._reqid \in Ids

\* Variant of WriteCallback that leaves the entry of the request in place.
WriteCallbackKeepsEntry(c, e) ==
  /\ c \in 1..Len(calls)
  /\ ~calls[c].writeFailed
  /\ ~e => socket = "live"
  /\ e => ~Answered(c)
  /\ IF e
       THEN /\ calls' = SettleIn([calls EXCEPT ![c].writeFailed = TRUE], {c},
                                 Reject(Msg("WriteError", 0, "write failed")))
            /\ UNCHANGED <<createDbRequests, applyChangesRequests>>
            /\ socket' = IF socket = "live" THEN "errPending" ELSE socket
       ELSE UNCHANGED <<calls, createDbRequests, applyChangesRequests, socket>>
  /\ UNCHANGED <<closed, timer, elapsed, prematurelyClosed, uncaught,
                 pingWritten, peerDead>>

\* The callback of socket.write, e telling whether it is given an error.
\* A write on a socket that is not live fails, and a write that fails on a
\* live socket fails the socket; the write of a request the primary has
\* answered has not failed.  Without an error the callback does nothing;
\* with one it deletes the entry under the id of the request and rejects.
WriteCallback(c, e) ==
  /\ c \in 1..Len(calls)
  /\ ~calls[c].writeFailed
  /\ ~e => socket = "live"
  /\ e => ~Answered(c)
  /\ IF e
       THEN /\ calls' = SettleIn([calls EXCEPT ![c].writeFailed = TRUE], {c},
                                 Reject(Msg("WriteError", 0, "write failed")))
            /\ IF calls[c].family = "createDb"
                 THEN /\ createDbRequests' =
                           MapDelete(createDbRequests, calls[c].reqid)
                      /\ UNCHANGED applyChangesRequests
                 ELSE /\ applyChangesRequests' =
                           MapDelete(applyChangesRequests, calls[c].reqid)
                      /\ UNCHANGED createDbRequests
            /\ socket' = IF socket = "live" THEN "errPending" ELSE socket
       ELSE UNCHANGED <<calls, createDbRequests, applyChangesRequests, socket>>
  /\ UNCHANGED <<closed, timer, elapsed, prematurelyClosed, uncaught,
                 pingWritten, peerDead>>

\* throw new Error(...) in the "data" callback: nothing catches it.
Throw ==
  /\ uncaught' = TRUE
  /\ UNCHANGED <<closed, socket, timer, elapsed, createDbRequests,
                 applyChangesRequests, calls, prematurelyClosed, pingWritten,
                 peerDead>>

\* createDbRequest(msg): invoke the resolver found in the create-db table.
InvokeCreateDbResolver(msg) ==
  /\ calls' = SettleIn(calls, {createDbRequests[msg._reqid]},
                       ResolverOutcome(msg))
  /\ createDbRequests' = ResolverTable(createDbRequests, msg)
  /\ UNCHANGED <<closed, socket, timer, elapsed, applyChangesRequests,
                 prematurelyClosed, uncaught, pingWritten, peerDead>>

\* applyChangesRequest(msg)
InvokeApplyChangesResolver(msg) ==
  /\ calls' = SettleIn(calls, {applyChangesRequests[msg._reqid]},
                       ResolverOutcome(msg))
  /\ applyChangesRequests' = ResolverTable(applyChangesRequests, msg)
  /\ UNCHANGED <<closed, socket, timer, elapsed, createDbRequests,
                 prematurelyClosed, uncaught, pingWritten, peerDead>>

\* case tags.Pong
HandlePong ==
  /\ elapsed' = 0
  /\ UNCHANGED <<closed, socket, timer, createDbRequests,
                 applyChangesRequests, calls, prematurelyClosed, uncaught,
                 pingWritten, peerDead>>

\* case tags.CreateDbOnPrimaryResponse
HandleCreateDbResponse(msg) ==
  IF msg._reqid \notin DOMAIN createDbRequests
    THEN Throw
    ELSE InvokeCreateDbResolver(msg)

\* case tags.ApplyChangesOnPrimaryResponse
HandleApplyChangesResponse(msg) ==
  IF msg._reqid \notin DOMAIN applyChangesRequests
    THEN Throw
    ELSE InvokeApplyChangesResolver(msg)

\* Variant of HandleErr that looks in the apply-changes table first.
HandleErrApplyChangesFirst(msg) ==
  IF msg._reqid \in DOMAIN applyChangesRequests
    THEN InvokeApplyChangesResolver(msg)
    ELSE IF msg._reqid \in DOMAIN createDbRequests
      THEN InvokeCreateDbResolver(msg)
      ELSE Throw

\* case tags.Err: the create-db table first, then the apply-changes table.
HandleErr(msg) ==
  IF msg._reqid \in DOMAIN createDbRequests
    THEN InvokeCreateDbResolver(msg)
    ELSE IF msg._reqid \in DOMAIN applyChangesRequests
      THEN InvokeApplyChangesResolver(msg)
      ELSE Throw

\* #handleMessage: the "data" callback of the socket.
OnData(msg) ==
  /\ socket = "live"
  /\ ~peerDead
  /\ CASE msg._tag = "Pong" -> HandlePong
       [] msg._tag = "CreateDbOnPrimaryResponse" -> HandleCreateDbResponse(msg)
       [] msg._tag = "Err" -> HandleErr(msg)
       [] msg._tag = "ApplyChangesOnPrimaryResponse" ->
            HandleApplyChangesResponse(msg)
       [] OTHER -> Throw

\* Variant of rejectPending that sweeps the create-db table only.
rejectPendingCreateDbOnly ==
  /\ calls' = SettleIn(calls,
                       MapValues(ResolverTable(createDbRequests,
                                               ConnectionClosedErr)),
                       ResolverOutcome(ConnectionClosedErr))
  /\ createDbRequests' = EmptyMap
  /\ UNCHANGED applyChangesRequests

\* #rejectPending(): every resolver of both tables is invoked with the
\* connection-closed Err (whose id is no key of a table, so the delete of
\* the resolver removes nothing), then the tables are cleared.
rejectPending ==
  /\ calls' = SettleIn(calls,
                       MapValues(ResolverTable(createDbRequests,
                                               ConnectionClosedErr))
                       \cup MapValues(ResolverTable(applyChangesRequests,
                                                    ConnectionClosedErr)),
                       ResolverOutcome(ConnectionClosedErr))
  /\ createDbRequests' = EmptyMap
  /\ applyChangesRequests' = EmptyMap

\* Variant of FailureBody that notifies the owner without rejecting.
FailureBodyNotifyOnly ==
  IF ~closed
    THEN /\ prematurelyClosed' = prematurelyClosed + 1
         /\ UNCHANGED <<calls, createDbRequests, applyChangesRequests>>
    ELSE UNCHANGED <<calls, createDbRequests, applyChangesRequests,
                     prematurelyClosed>>

\* The body shared by #onError and #onClose.
FailureBody ==
  IF ~closed
    THEN /\ rejectPending
         /\ prematurelyClosed' = prematurelyClosed + 1
    ELSE UNCHANGED <<calls, createDbRequests, applyChangesRequests,
                     prematurelyClosed>>

\* #onError: the socket emits "error" and will emit "close" next.
onError ==
  /\ socket \in {"live", "errPending"}
  /\ socket' = "closePending"
  /\ FailureBody
  /\ UNCHANGED <<closed, timer, elapsed, uncaught, pingWritten, peerDead>>

\* #onClose: the socket emits "close" (after an error, after destroy(), or
\* because the peer ended the connection).
onClose ==
  /\ socket \in {"live", "closePending"}
  /\ socket' = "closed"
  /\ FailureBody
  /\ UNCHANGED <<closed, timer, elapsed, uncaught, pingWritten, peerDead>>

\* socket.destroy(): the "close" event follows, once.
Destroyed(s) == IF s = "live" THEN "closePending" ELSE s

\* Variant of sendPing whose timeout branch forgets clearInterval.
sendPingKeepsTimer ==
  /\ timer
  /\ IF elapsed + PingIntervalMs > PongTimeoutMs
       THEN /\ socket' = Destroyed(socket)
            /\ pingWritten' = FALSE
            /\ UNCHANGED <<timer, elapsed>>
       ELSE /\ elapsed' = elapsed + PingIntervalMs
            /\ pingWritten' = TRUE
            /\ UNCHANGED <<socket, timer>>
  /\ UNCHANGED <<closed, createDbRequests, applyChangesRequests, calls,
                 prematurelyClosed, uncaught, peerDead>>

\* Variant of sendPing that times out as soon as the limit is reached.
sendPingAtLimit ==
  /\ timer
  /\ IF elapsed + PingIntervalMs >= PongTimeoutMs
       THEN /\ socket' = Destroyed(socket)
            /\ timer' = FALSE
            /\ elapsed' = 0
            /\ pingWritten' = FALSE
       ELSE /\ elapsed' = elapsed + PingIntervalMs
            /\ pingWritten' = TRUE
            /\ UNCHANGED <<socket, timer>>
  /\ UNCHANGED <<closed, createDbRequests, applyChangesRequests, calls,
                 prematurelyClosed, uncaught, peerDead>>

\* #sendPing, run by the interval timer.
sendPing ==
  /\ timer
  /\ IF elapsed + PingIntervalMs > PongTimeoutMs
       THEN /\ socket' = Destroyed(socket)
            /\ timer' = FALSE
            /\ elapsed' = 0
            /\ pingWritten' = FALSE
       ELSE /\ elapsed' = elapsed + PingIntervalMs
            /\ pingWritten' = TRUE
            /\ UNCHANGED <<socket, timer>>
  /\ UNCHANGED <<closed, createDbRequests, applyChangesRequests, calls,
                 prematurelyClosed, uncaught, peerDead>>

\* close()
linkClose ==
  /\ closed' = TRUE
  /\ socket' = Destroyed(socket)
  /\ timer' = FALSE
  /\ elapsed' = 0
  /\ rejectPending
  /\ UNCHANGED <<prematurelyClosed, uncaught, pingWritten, peerDead>>

\* The primary stops sending: no "data" event is emitted any more.
PeerDies ==
  /\ ~peerDead
  /\ peerDead' = TRUE
  /\ UNCHANGED <<closed, socket, timer, elapsed, createDbRequests,
                 applyChangesRequests, calls, prematurelyClosed, uncaught,
                 pingWritten>>

LinkInit ==
  /\ closed = FALSE
  /\ socket = "live"
  /\ timer = TRUE
  /\ elapsed = 0
  /\ createDbRequests = EmptyMap
  /\ applyChangesRequests = EmptyMap
  /\ calls = <<>>
  /\ prematurelyClosed = 0
  /\ uncaught = FALSE
  /\ pingWritten = FALSE
  /\ peerDead = FALSE

\* ----------------------------------------------------------- specifications
Init == BrokerInit /\ LinkInit

\* The steps of one connection broker.
BrokerNext ==
  \/ \E b \in Bytes : OnMessage(b) /\ UNCHANGED linkVars
  \/ \E i \in 1..MaxMsgs, ok \in BOOLEAN :
       FactoryDone(i, ok) /\ UNCHANGED linkVars
  \/ \E i \in 1..MaxMsgs, ok \in BOOLEAN :
       ReceiveDone(i, ok) /\ UNCHANGED linkVars
  \/ \E i \in 1..MaxMsgs : CatchHandler(i) /\ UNCHANGED linkVars
  \/ OnWsError /\ UNCHANGED linkVars
  \/ OnWsClose /\ UNCHANGED linkVars

\* The steps of one primary link.
LinkNext ==
  \/ \E r \in Ids : sendCreateDb(r) /\ UNCHANGED brokerVars
  \/ \E r \in Ids : sendApplyChanges(r) /\ UNCHANGED brokerVars
  \/ \E c \in 1..MaxCalls, e \in BOOLEAN :
       WriteCallback(c, e) /\ UNCHANGED brokerVars
  \/ \E msg \in Inbound : OnData(msg) /\ UNCHANGED brokerVars
  \/ onError /\ UNCHANGED brokerVars
  \/ onClose /\ UNCHANGED brokerVars
  \/ sendPing /\ UNCHANGED brokerVars
  \/ linkClose /\ UNCHANGED brokerVars

Next == BrokerNext \/ LinkNext

Spec == Init /\ [][Next]_vars

\* One connection broker, the link idle.
BrokerSpec == Init /\ [][BrokerNext]_vars

\* One primary link, the broker idle.
LinkSpec == Init /\ [][LinkNext]_vars

\* The steps of one primary link whose primary may stop sending.
FairLinkNext ==
  \/ LinkNext
  \/ PeerDies /\ UNCHANGED brokerVars

\* The callback of a write made on a dead socket is given an error.
DeadWriteFails(c) ==
  /\ c \in 1..Len(calls)
  /\ calls[c].onDeadSocket
  /\ WriteCallback(c, TRUE)
  /\ UNCHANGED brokerVars

\* What the runtime guarantees: the interval timer keeps ticking until it
\* is cleared, a socket that failed emits "error", a socket that failed or
\* was destroyed emits "close", and the callback of a write on a dead socket
\* is invoked.
LinkFairness ==
  /\ WF_vars(sendPing /\ UNCHANGED brokerVars)
  /\ WF_vars(socket = "errPending" /\ onError /\ UNCHANGED brokerVars)
  /\ WF_vars(socket = "closePending" /\ onClose /\ UNCHANGED brokerVars)
  /\ \A c \in 1..MaxCalls : WF_vars(DeadWriteFails(c))

FairLinkSpec == Init /\ [][FairLinkNext]_vars /\ LinkFairness

\* ------------------------------------------------ ConnectionBroker: properties
Range(q) == {q[k] : k \in DOMAIN q}

Failed(i) == msgs[i].pc \in {"rejected", "caught"}

\* The calls of `log` that forward a client message to a session.
Forwarded(log) ==
  SelectSeq(log, LAMBDA c : c.op \in {"receiveChanges", "changesRejected"})

\* The session calls made while handling message i.
CallsBy(i) == {c \in Range(sessionLog) : c.by = i}

\* C1: at most one session is ever created on a connection, the stored
\* session is never replaced, and an AnnouncePresence that follows one which
\* produced a session fails.
C1_SingleSession ==
  /\ nSessions <= 1
  /\ syncConnection \in {Null, 1}
  /\ \A i \in 1..Len(msgs) :
       (/\ msgs[i].tag = "AnnouncePresence"
        /\ \E j \in 1..(i - 1) :
             msgs[j].tag = "AnnouncePresence" /\ msgs[j].pc = "done")
       => Failed(i)

\* C2: no handler is started while the handler of an earlier message is
\* still in flight; in particular no Changes or RejectChanges is dispatched
\* while the session of an earlier AnnouncePresence is still being built.
C2_SerialDispatch ==
  \A i \in 1..Len(msgs) :
    /\ ~msgs[i].overlap
    /\ msgs[i].tag \in {"Changes", "RejectChanges"}
       => \A j \in 1..(i - 1) : msgs[j].pc # "awaitFactory"

\* C3: once close() has run, no later message invokes the session factory
\* and none is forwarded to a session.
C3_ClosedIsAbsorbing ==
  [][closeLog # <<>> =>
       /\ factoryCalls' = factoryCalls
       /\ Forwarded(sessionLog') = Forwarded(sessionLog)]_brokerVars

\* C4: a Changes or RejectChanges dispatched while #syncConnection is null
\* raises, reaches no session, and its catch block runs close().
C4_ChangesWithoutSessionFails ==
  \A i \in 1..Len(msgs) :
    (msgs[i].tag \in {"Changes", "RejectChanges"} /\ msgs[i].sess = Null)
    => /\ Failed(i)
       /\ msgs[i].pc = "caught" => i \in Range(closeLog)
       /\ \A c \in CallsBy(i) : c.op = "close"

\* A Changes that arrived while the first session was still being built was
\* rejected, and the close() of its catch block closed the session that had
\* been stored in the meantime.
C4_Witness ==
  \E i \in 1..Len(msgs) :
    /\ msgs[i].tag = "Changes"
    /\ msgs[i].sess = Null
    /\ msgs[i].pc = "caught"
    /\ Call(1, "close", i) \in Range(sessionLog)

\* C5: an inbound StartStreaming raises in every broker state, its catch
\* block runs close(), and handling it calls no session method but close().
C5_StartStreamingTerminates ==
  \A i \in 1..Len(msgs) :
    msgs[i].tag = "StartStreaming"
    => /\ Failed(i)
       /\ msgs[i].pc = "caught" => i \in Range(closeLog)
       /\ \A c \in CallsBy(i) : c.op = "close"

\* A StartStreaming on an active session and one on a connection without a
\* session have both been caught.
C5_Witness ==
  /\ \E i \in 1..Len(msgs) :
       /\ msgs[i].tag = "StartStreaming"
       /\ msgs[i].sess # Null
       /\ msgs[i].pc = "caught"
       /\ Call(msgs[i].sess, "close", i) \in Range(sessionLog)
  /\ \E i \in 1..Len(msgs) :
       /\ msgs[i].tag = "StartStreaming"
       /\ msgs[i].sess = Null
       /\ msgs[i].pc = "caught"

\* The run so far is the happy path: an AnnouncePresence first, then only
\* Changes and RejectChanges, every message dispatched after the handlers
\* before it had completed, no transport event, and neither the session
\* factory nor the session raised.
HappyPath ==
  /\ Len(msgs) >= 1
  /\ msgs[1].tag = "AnnouncePresence"
  /\ \A i \in 2..Len(msgs) : msgs[i].tag \in {"Changes", "RejectChanges"}
  /\ \A i \in 1..Len(msgs) : ~msgs[i].overlap /\ ~msgs[i].collabFailed
  /\ ws = "open"

ForwardOp(tag) ==
  IF tag = "Changes" THEN "receiveChanges" ELSE "changesRejected"

\* What the session log of a happy path holds: start() once the announce
\* has completed, then one forwarding call per later message, in order.
HappyLog ==
  (IF msgs[1].pc = "done" THEN <<Call(1, "start", 1)>> ELSE <<>>)
  \o [k \in 1..(Len(msgs) - 1) |->
        Call(1, ForwardOp(msgs[k + 1].tag), k + 1)]

\* C6: on the happy path the session factory is invoked exactly once, the
\* session log is start() followed by the forwarded messages in arrival
\* order, and close() never runs.
C6_HappyPath ==
  HappyPath =>
    /\ factoryCalls = 1
    /\ nSessions = (IF msgs[1].pc = "done" THEN 1 ELSE 0)
    /\ sessionLog = HappyLog
    /\ closeLog = <<>>
    /\ \A i \in 1..Len(msgs) : ~Failed(i)

\* An announce, then a Changes and a RejectChanges, all completed.
C6_Witness ==
  /\ HappyPath
  /\ Len(msgs) = 3
  /\ msgs[2].tag = "Changes"
  /\ msgs[3].tag = "RejectChanges"
  /\ \A i \in 1..3 : msgs[i].pc = "done"

\* C7: a message whose bytes fail to decode is handled like a violation:
\* the failure is caught in the message callback and close() runs.
C7_DecodeFailureCloses ==
  \A i \in 1..Len(msgs) :
    msgs[i].tag = "garbage"
    => /\ Failed(i)
       /\ msgs[i].pc = "caught" => i \in Range(closeLog)

\* --------------------------------------------------- PrimarySocket: properties --
\* The reject/resolve calls on call c's promise that its resolver made (the
\* rest are made by the callback of its write).
ResolverRuns(c) ==
  SelectSeq(calls[c].settles, LAMBDA o : o.with._tag # "WriteError")

\* Those of them made for a message of the peer.
PeerSettles(c) ==
  SelectSeq(ResolverRuns(c), LAMBDA o : o.with # ConnectionClosedErr)

ResponseTag(family) ==
  IF family = "createDb" THEN "CreateDbOnPrimaryResponse"
                         ELSE "ApplyChangesOnPrimaryResponse"

\* The calls whose resolver is registered in one of the two tables.
PendingCalls == MapValues(createDbRequests) \cup MapValues(applyChangesRequests)

\* C8: the resolver of a call runs at most once, and a message of the peer
\* that settles a call carries the id of that call: the call resolves with
\* the response of its own family and rejects with an Err.
C8_RequestCorrelation ==
  \A c \in 1..Len(calls) :
    /\ Len(ResolverRuns(c)) <= 1
    /\ \A k \in DOMAIN PeerSettles(c) :
         LET o == PeerSettles(c)[k]
         IN /\ o.with._reqid = calls[c].reqid
            /\ o.how = "resolve" => o.with._tag = ResponseTag(calls[c].family)
            /\ o.how = "reject" => o.with._tag = "Err"

\* Two calls with distinct ids were pending together; the response of the
\* later one arrived first and resolved it, the earlier one is still
\* registered and unsettled.
C8_Witness ==
  /\ Len(calls) = 2
  /\ calls[1].reqid # calls[2].reqid
  /\ calls[2].settles =
       <<Resolve(Msg(ResponseTag(calls[2].family), calls[2].reqid, ""))>>
  /\ calls[1].settles = <<>>
  /\ 1 \in PendingCalls

\* A step that tears the link down: close(), or a socket error or close
\* event on a link that close() has not been called on.
Teardown == linkClose \/ (~closed /\ (onError \/ onClose))

\* C9: a teardown rejects every pending call with the connection-closed Err,
\* touches no other call and leaves both tables empty; a close() on a link
\* already closed, with nothing registered since, changes nothing.
C9_TeardownSweep ==
  [][/\ Teardown =>
          /\ createDbRequests' = EmptyMap
          /\ applyChangesRequests' = EmptyMap
          /\ \A c \in PendingCalls :
               /\ calls[c].settles = <<>>
               /\ calls'[c].settles = <<Reject(ConnectionClosedErr)>>
          /\ \A c \in DOMAIN calls \ PendingCalls : calls'[c] = calls[c]
     /\ (/\ closed
         /\ createDbRequests = EmptyMap
         /\ applyChangesRequests = EmptyMap
         /\ linkClose) => UNCHANGED linkVars]_vars

\* Two calls, one in each table, swept by a transport failure.
C9_Witness ==
  /\ ~closed
  /\ prematurelyClosed = 1
  /\ Len(calls) = 2
  /\ calls[1].family # calls[2].family
  /\ \A c \in 1..2 : calls[c].settles = <<Reject(ConnectionClosedErr)>>
  /\ createDbRequests = EmptyMap
  /\ applyChangesRequests = EmptyMap

\* C10: on a link that close() was never called on, #onPrematurelyClosed is
\* invoked exactly once over a transport failure: never twice, and once the
\* socket has emitted its close event, not zero times.
C10_NotifiedExactlyOnce ==
  /\ prematurelyClosed <= 1
  /\ (~closed /\ socket = "closed") => prematurelyClosed = 1

\* C11: a tick of the heartbeat that finds more than PongTimeoutMs elapsed
\* since the last Pong (since construction if there was none) destroys the
\* socket, cancels the timer and writes no Ping; a tick that finds at most
\* PongTimeoutMs elapsed writes a Ping and leaves the socket and the timer as
\* they are.  So no tick ever writes a Ping later than PongTimeoutMs after
\* the last Pong: without a Pong the sixth tick ends the link.
C11_Heartbeat ==
  /\ [](elapsed <= PongTimeoutMs)
  /\ [][sendPing =>
         IF elapsed + PingIntervalMs > PongTimeoutMs
           THEN /\ socket' = Destroyed(socket)
                /\ socket' # "live"
                /\ ~timer'
                /\ ~pingWritten'
           ELSE /\ pingWritten'
                /\ socket' = socket
                /\ timer' = timer]_vars

\* The heartbeat has timed out on a link that nothing else had touched: the
\* socket is destroyed, its close event not yet emitted.
C11_Witness ==
  /\ ~timer
  /\ ~pingWritten
  /\ ~closed
  /\ socket = "closePending"
  /\ prematurelyClosed = 0

\* C12: the step at which a response or Err with an id its table does not
\* hold, or a message of a tag without a case, is handled leaves the link
\* closed: socket destroyed, heartbeat cancelled, nothing left pending.
C12_UnknownResponseCloses ==
  [][(~uncaught /\ uncaught') =>
       /\ socket' # "live"
       /\ ~timer'
       /\ createDbRequests' = EmptyMap
       /\ applyChangesRequests' = EmptyMap
       /\ \A c \in DOMAIN calls' : calls'[c].settles # <<>>]_vars

\* The promise of call c is rejected.
Rejected(c) == calls[c].settles # <<>> /\ calls[c].settles[1].how = "reject"

\* Call c was made on a socket already dead.
SentOnDeadSocket(c) ==
  IF c \in 1..Len(calls) THEN calls[c].onDeadSocket ELSE FALSE

\* Call c is rejected and no table holds its resolver.
RejectedAndGone(c) ==
  IF c \in 1..Len(calls) THEN Rejected(c) /\ c \notin PendingCalls ELSE FALSE

\* C13: after close() no socket event invokes #onPrematurelyClosed; and a
\* request sent on a link whose socket is already dead (after close() or
\* after a transport failure) is never resolved, and ends up rejected with
\* no entry of its own in either table.
C13_NothingAfterTeardown ==
  /\ [][closed => prematurelyClosed' = prematurelyClosed]_vars
  /\ [](\A c \in 1..Len(calls) :
          calls[c].onDeadSocket =>
            \A k \in DOMAIN calls[c].settles :
              calls[c].settles[k].how = "reject")
  /\ \A c \in 1..MaxCalls : SentOnDeadSocket(c) ~> RejectedAndGone(c)

\* A request sent after close() was rejected by the callback of its write,
\* both tables are empty, and the close event of the destroyed socket has
\* been swallowed.
C13_Witness ==
  /\ closed
  /\ socket = "closed"
  /\ prematurelyClosed = 0
  /\ Len(calls) = 1
  /\ calls[1].onDeadSocket
  /\ calls[1].settles = <<Reject(Msg("WriteError", 0, "write failed"))>>
  /\ createDbRequests = EmptyMap
  /\ applyChangesRequests = EmptyMap

\* Every call was made with an id that no outstanding request was using.
UniqueIds == \A c \in DOMAIN calls : ~calls[c].idOutstanding

\* The table of a family of requests.
Table(family) ==
  IF family = "createDb" THEN createDbRequests ELSE applyChangesRequests

\* The resolver of call c is the entry under its id in the table of its
\* family.
Registered(c) ==
  /\ calls[c].reqid \in DOMAIN Table(calls[c].family)
  /\ Table(calls[c].family)[calls[c].reqid] = c

\* C14: as long as callers use ids unique among outstanding requests, the
\* resolver of a call is in its table exactly while the promise of the call
\* is unsettled, and no resolver is invoked twice.
C14_PendingTable ==
  UniqueIds =>
    \A c \in DOMAIN calls :
      /\ Registered(c) <=> calls[c].settles = <<>>
      /\ Len(ResolverRuns(c)) <= 1

\* C16: when the callback of the write of call c reports an error, and ids
\* have been unique among outstanding requests, call c is rejected and its
\* resolver is in no table, every other call is as it was, and every other
\* resolver that was registered still is.
C16_WriteFailure ==
  [][\A c \in DOMAIN calls :
       (UniqueIds /\ ~calls[c].writeFailed /\ calls'[c].writeFailed) =>
         /\ Rejected(c)'
         /\ ~Registered(c)'
         /\ \A d \in DOMAIN calls \ {c} :
              /\ calls'[d] = calls[d]
              /\ Registered(d) => Registered(d)']_vars

\* The Err the primary sends for request id r.
PeerErr(r) == Msg("Err", r, "peer error")

\* C17: an Err for id r rejects and removes exactly one entry: the
\* create-db entry under r if there is one, otherwise the apply-changes
\* entry under r; with a create-db entry the apply-changes table is left as
\* it is; with no entry under r in either table nothing changes but the
\* exception that leaves the handler.
C17_ErrRouting ==
  [][\A r \in Ids :
       (socket = "live" /\ ~peerDead /\ HandleErr(PeerErr(r))) =>
         LET target ==
               IF r \in DOMAIN createDbRequests THEN createDbRequests[r]
               ELSE IF r \in DOMAIN applyChangesRequests
                 THEN applyChangesRequests[r]
                 ELSE 0
         IN /\ r \in DOMAIN createDbRequests =>
                 /\ createDbRequests' = MapDelete(createDbRequests, r)
                 /\ applyChangesRequests' = applyChangesRequests
            /\ (r \notin DOMAIN createDbRequests
                  /\ r \in DOMAIN applyChangesRequests) =>
                 /\ applyChangesRequests' = MapDelete(applyChangesRequests, r)
                 /\ createDbRequests' = createDbRequests
            /\ target # 0 =>
                 /\ calls'[target].settles =
                      Append(calls[target].settles, Reject(PeerErr(r)))
                 /\ \A d \in DOMAIN calls \ {target} : calls'[d] = calls[d]
                 /\ uncaught' = uncaught
            /\ target = 0 =>
                 /\ uncaught'
                 /\ UNCHANGED <<createDbRequests, applyChangesRequests,
                                calls>>]_vars

\* Both tables held an entry under the same id when the Err for it arrived:
\* the create-db request is rejected with it, the apply-changes request is
\* still registered and unsettled.
C17_Witness ==
  /\ Len(calls) = 2
  /\ calls[1].family = "applyChanges"
  /\ calls[2].family = "createDb"
  /\ calls[1].reqid = calls[2].reqid
  /\ calls[2].settles = <<Reject(PeerErr(calls[2].reqid))>>
  /\ calls[1].settles = <<>>
  /\ Registered(1)
  /\ createDbRequests = EmptyMap

\* Call c is registered while the primary is silent for good.
PendingOnDeadPeer(c) ==
  IF c \in 1..Len(calls) THEN peerDead /\ Registered(c) ELSE FALSE

\* The promise of call c is rejected with the connection-closed Err.
RejectedAsClosed(c) ==
  IF c \in 1..Len(calls)
    THEN calls[c].settles # <<>>
         /\ calls[c].settles[1] = Reject(ConnectionClosedErr)
    ELSE FALSE

\* The promise of call c is rejected, with the connection-closed Err or with
\* the error of its write.
RejectedOnDeadPeer(c) ==
  IF c \in 1..Len(calls)
    THEN Rejected(c) /\ calls[c].settles[1].with._tag \in {"Err", "WriteError"}
    ELSE FALSE

\* C18, as stated: once the primary is silent for good, every request
\* registered then is eventually rejected with the connection-closed Err
\* (callers keeping ids unique among outstanding requests), and on a link
\* that close() is not called on #onPrematurelyClosed is eventually invoked.
C18_DeadPeerAsStated ==
  /\ \A c \in 1..MaxCalls :
       PendingOnDeadPeer(c) ~> (RejectedAsClosed(c) \/ ~UniqueIds)
  /\ peerDead ~> (prematurelyClosed >= 1 \/ closed)

\* C18, amended: once the primary is silent for good, every request
\* registered then is eventually rejected, with the connection-closed Err
\* or, if its write fails first, with the error of its write (callers
\* keeping ids unique among outstanding requests); and on a link that
\* close() is not called on #onPrematurelyClosed is eventually invoked.
C18_DeadPeer ==
  /\ \A c \in 1..MaxCalls :
       PendingOnDeadPeer(c) ~> (RejectedOnDeadPeer(c) \/ ~UniqueIds)
  /\ peerDead ~> (prematurelyClosed >= 1 \/ closed)

\* The primary fell silent with a request registered on a live socket; the
\* heartbeat timed out, and the close event of the destroyed socket swept
\* the request and notified the owner.
C18_Witness ==
  /\ peerDead
  /\ ~closed
  /\ ~timer
  /\ socket = "closed"
  /\ prematurelyClosed = 1
  /\ Len(calls) = 1
  /\ ~calls[1].onDeadSocket
  /\ calls[1].settles = <<Reject(ConnectionClosedErr)>>

\* C20: once the socket has failed, the heartbeat timer is eventually
\* cancelled, also when close() is never called; and once it is cancelled it
\* stays cancelled and no tick runs, so no Ping is written any more.
C20_TimerEventuallyCancelled ==
  /\ (socket # "live") ~> ~timer
  /\ [][~timer => UNCHANGED <<timer, pingWritten, elapsed>>]_vars

\* The socket failed and emitted error and close, close() was never called,
\* and the timer has cancelled itself.
C20_Witness ==
  /\ ~closed
  /\ ~timer
  /\ ~pingWritten
  /\ socket = "closed"
  /\ prematurelyClosed = 2

\* ------------------------------------- ConnectionBroker: session lifetime --
\* The close() calls made on session s.
ClosesOf(s) ==
  SelectSeq(sessionLog, LAMBDA c : c.sess = s /\ c.op = "close")

\* C15: once the transport has emitted its close event and no handler is in
\* flight any more, every session created for the connection has had
\* close() called on it.
C15_SessionClosedOnTransportClose ==
  (ws = "closed" /\ ~SomeInFlight) =>
    \A s \in 1..nSessions : ClosesOf(s) # <<>>

\* C19: however often the broker's close() runs, close() is invoked on a
\* session at most once.
C19_CloseIdempotent ==
  \A s \in 1..nSessions : Len(ClosesOf(s)) <= 1

=============================================================================
